---- MODULE Spec2Model ----
(***************************************************************************)
(* Model of src/examples/example.rs.                                       *)
(*                                                                         *)
(* Two parts of the file carry state or arithmetic worth checking:         *)
(*                                                                         *)
(*  - smart_pointer_examples (lines 165-173): an Rc<RefCell<i32>>.  The    *)
(*    Rc strong count, the RefCell borrow flag and the stored value are    *)
(*    the state; Rc::new/RefCell::new, borrow_mut, `*v += 1`, the drop of  *)
(*    the RefMut, borrow, the drop of the Ref and the drop of the Rc are   *)
(*    the operations.  Their effect is that of std::rc::Rc and             *)
(*    std::cell::RefCell, which the file calls: the borrow flag is 0 when  *)
(*    unused, n > 0 with n readers, -1 with a writer; borrow_mut() and     *)
(*    borrow() are the panicking variants.  Specification: Spec.           *)
(*                                                                         *)
(*  - math::ops::add (line 7), imported as add_i32 (line 16): `a + b` on   *)
(*    i32.  Specification: AddSpec.                                        *)
(***************************************************************************)
EXTENDS Integers, FiniteSets, Sequences, TLC

VARIABLES
    strong,          \* Rc strong count (owner count)
    borrow,          \* RefCell borrow flag: 0 unused, n > 0 readers, -1 writer
    value,           \* the i32 stored in the RefCell
    destroyed,       \* number of times the RefCell and its value were dropped
    handles,         \* ids of the live Rc handles
    guards,          \* live guards: id -> [kind, via]
    panicked,        \* the thread is panicking (a borrow found a conflict)
    lastRead,        \* the value last read through a guard (0: none yet)
    last,            \* the last operation performed, with the state before it
    prev,            \* the operation before that
    exclSeen,        \* borrow_mut has been called at least once
    pc,              \* position in the run of smart_pointer_examples, -1 when
                     \* the operations performed are not a prefix of that run
    a, b,            \* arguments of add
    overflow_checks, \* build profile: overflow checks on (debug) or off
    outcome          \* what add(a, b) did

cellVars == <<strong, borrow, value, destroyed, handles, guards, panicked,
              lastRead, last, prev, exclSeen, pc>>
addVars == <<a, b, overflow_checks, outcome>>
vars == <<strong, borrow, value, destroyed, handles, guards, panicked,
          lastRead, last, prev, exclSeen, pc, a, b, overflow_checks, outcome>>

----------------------------------------------------------------------------
(* Bounds of the model *)

MaxHandles == 3
MaxGuards == 2
MaxWrites == 2
Spread == 2

(* Program constants *)

InitialValue == 5

I32_MAX == 2147483647

I32_MIN == -2147483647 - 1

Pow30 == 1073741824

----------------------------------------------------------------------------
(* Rc<RefCell<i32>> *)

HandleIds == 1..MaxHandles
GuardIds == 1..MaxGuards

SharedGuards == {g \in DOMAIN guards : guards[g].kind = "shared"}
ExclGuards == {g \in DOMAIN guards : guards[g].kind = "exclusive"}

Snapshot ==
    [strong |-> strong, borrow |-> borrow, value |-> value,
     destroyed |-> destroyed,
     shared |-> Cardinality(SharedGuards), excl |-> Cardinality(ExclGuards)]

NoSnapshot ==
    [strong |-> 0, borrow |-> 0, value |-> 0, destroyed |-> 0,
     shared |-> 0, excl |-> 0]

Entry(op, h, g, new, res) ==
    [op |-> op, h |-> h, g |-> g, new |-> new, res |-> res, pre |-> Snapshot]

NewHandle == CHOOSE i \in HandleIds :
                 i \notin handles /\ \A j \in HandleIds : j < i => j \in handles

NewGuard == CHOOSE i \in GuardIds :
                i \notin DOMAIN guards
                /\ \A j \in GuardIds : j < i => j \in DOMAIN guards

AddGuard(kind, h) ==
    [g \in DOMAIN guards \cup {NewGuard} |->
        IF g = NewGuard THEN [kind |-> kind, via |-> h] ELSE guards[g]]

RemoveGuard(g) == [x \in DOMAIN guards \ {g} |-> guards[x]]

BorrowConflict(res) == res \in {"BorrowError", "BorrowMutError"}

(* the statements of smart_pointer_examples after line 166, in order *)
script == <<"borrow_exclusive", "write", "release",
            "borrow_shared", "read", "release", "drop_handle">>

Advance(op) ==
    IF pc >= 0 /\ pc < Len(script) /\ script[pc + 1] = op THEN pc + 1 ELSE -1

Log(op, h, g, new, res) ==
    /\ prev' = last
    /\ last' = Entry(op, h, g, new, res)
    /\ pc' = Advance(op)

(* A borrow that finds a conflict panics ("already borrowed").  The model   *)
(* stops the sequence of operations at the panic, with the state the panic  *)
(* found; the unwinding that follows is not modelled.                       *)

(* RefCell::borrow_mut: allowed only when the flag is unused *)
BorrowMutAllowed_shared(f) == f >= 0
BorrowMutAllowed_writing(f) == f <= 0
BorrowMutAllowed(f) == f = 0

(* RefCell::borrow: allowed unless a writer holds the cell *)
BorrowAllowed(f) == f >= 0

(* the flag after borrow_mut: -1 when it was unused, untouched otherwise *)
FlagAfterBorrowMut_clobber(f) == -1
FlagAfterBorrowMut(f) == IF f = 0 THEN -1 ELSE f

(* the flag after borrow: one more reader, untouched under a writer *)
FlagAfterBorrow_set(f) == IF f >= 0 THEN 1 ELSE f
FlagAfterBorrow(f) == IF f >= 0 THEN f + 1 ELSE f

(* the flag after the drop of a Ref (one reader less) or of a RefMut *)
FlagAfterRelease_sticky(kind, f) ==
    IF kind = "shared" THEN (IF f > 1 THEN f - 1 ELSE f) ELSE f + 1
FlagAfterRelease_writer(kind, f) == IF kind = "shared" THEN f - 1 ELSE f
FlagAfterRelease(kind, f) == IF kind = "shared" THEN f - 1 ELSE f + 1

(* a handle can be dropped only when no guard borrows through it *)
DropAllowed_any(h) == TRUE
DropAllowed(h) == \A g \in DOMAIN guards : guards[g].via # h

(* Rc::drop: the strong count after the drop, and whether the value goes *)
StrongAfterDrop_stuck(s) == IF s = 1 THEN 0 ELSE s
StrongAfterDrop(s) == s - 1

ShouldDestroy_early(s) == s <= 1
ShouldDestroy(s) == s = 0

Init ==
    /\ strong = 1
    /\ borrow = 0
    /\ value = InitialValue
    /\ destroyed = 0
    /\ handles = {1}
    /\ guards = <<>>
    /\ panicked = FALSE
    /\ lastRead = 0
    /\ last = [op |-> "create", h |-> 1, g |-> 0, new |-> 1, res |-> "ok",
               pre |-> NoSnapshot]
    /\ prev = [op |-> "none", h |-> 0, g |-> 0, new |-> 0, res |-> "ok",
               pre |-> NoSnapshot]
    /\ exclSeen = FALSE
    /\ pc = 0
    /\ a = 0
    /\ b = 0
    /\ overflow_checks = FALSE
    /\ outcome = [kind |-> "none", val |-> 0]

clone_handle(h) ==
    /\ ~panicked
    /\ h \in handles
    /\ Cardinality(handles) < MaxHandles
    /\ strong' = strong + 1
    /\ handles' = handles \cup {NewHandle}
    /\ Log("clone_handle", h, 0, NewHandle, "ok")
    /\ UNCHANGED <<borrow, value, destroyed, guards, panicked, lastRead,
                   exclSeen>>
    /\ UNCHANGED addVars

borrow_shared(h) ==
    /\ ~panicked
    /\ h \in handles
    /\ BorrowAllowed(borrow) => Cardinality(DOMAIN guards) < MaxGuards
    /\ borrow' = FlagAfterBorrow(borrow)
    /\ IF BorrowAllowed(borrow)
         THEN /\ guards' = AddGuard("shared", h)
              /\ panicked' = FALSE
              /\ Log("borrow_shared", h, NewGuard, 0, "ok")
         ELSE /\ guards' = guards
              /\ panicked' = TRUE
              /\ Log("borrow_shared", h, 0, 0, "BorrowError")
    /\ UNCHANGED <<strong, value, destroyed, handles, lastRead, exclSeen>>
    /\ UNCHANGED addVars

borrow_exclusive(h) ==
    /\ ~panicked
    /\ h \in handles
    /\ BorrowMutAllowed(borrow) => Cardinality(DOMAIN guards) < MaxGuards
    /\ borrow' = FlagAfterBorrowMut(borrow)
    /\ exclSeen' = TRUE
    /\ IF BorrowMutAllowed(borrow)
         THEN /\ guards' = AddGuard("exclusive", h)
              /\ panicked' = FALSE
              /\ Log("borrow_exclusive", h, NewGuard, 0, "ok")
         ELSE /\ guards' = guards
              /\ panicked' = TRUE
              /\ Log("borrow_exclusive", h, 0, 0, "BorrowMutError")
    /\ UNCHANGED <<strong, value, destroyed, handles, lastRead>>
    /\ UNCHANGED addVars

write(g) ==
    /\ ~panicked
    /\ g \in ExclGuards
    /\ value < InitialValue + MaxWrites
    /\ value' = value + 1
    /\ Log("write", guards[g].via, g, 0, "ok")
    /\ UNCHANGED <<strong, borrow, destroyed, handles, guards, panicked,
                   lastRead, exclSeen>>
    /\ UNCHANGED addVars

read(g) ==
    /\ ~panicked
    /\ g \in DOMAIN guards
    /\ lastRead' = value
    /\ Log("read", guards[g].via, g, 0, "ok")
    /\ UNCHANGED <<strong, borrow, value, destroyed, handles, guards,
                   panicked, exclSeen>>
    /\ UNCHANGED addVars

release(g) ==
    /\ ~panicked
    /\ g \in DOMAIN guards
    /\ borrow' = FlagAfterRelease(guards[g].kind, borrow)
    /\ guards' = RemoveGuard(g)
    /\ Log("release", guards[g].via, g, 0, "ok")
    /\ UNCHANGED <<strong, value, destroyed, handles, panicked, lastRead,
                   exclSeen>>
    /\ UNCHANGED addVars

drop_handle(h) ==
    /\ ~panicked
    /\ h \in handles
    /\ DropAllowed(h)
    /\ strong' = StrongAfterDrop(strong)
    /\ handles' = handles \ {h}
    /\ destroyed' = IF ShouldDestroy(strong') THEN destroyed + 1 ELSE destroyed
    /\ Log("drop_handle", h, 0, 0, "ok")
    /\ UNCHANGED <<borrow, value, guards, panicked, lastRead, exclSeen>>
    /\ UNCHANGED addVars

Next ==
    \/ \E h \in HandleIds : clone_handle(h)
    \/ \E h \in HandleIds : borrow_shared(h)
    \/ \E h \in HandleIds : borrow_exclusive(h)
    \/ \E g \in GuardIds : write(g)
    \/ \E g \in GuardIds : read(g)
    \/ \E g \in GuardIds : release(g)
    \/ \E h \in HandleIds : drop_handle(h)

Spec == Init /\ [][Next]_vars

----------------------------------------------------------------------------
(* math::ops::add, imported as add_i32 *)

Samples ==
    {I32_MIN + i : i \in 0..Spread} \cup {i - Spread : i \in 0..(2 * Spread)}
    \cup {3, 10, 20} \cup {I32_MAX - i : i \in 0..Spread}

(* `x + y` leaves the i32 range.  TLC's own integers are 32 bits wide, so   *)
(* no definition here forms a value outside that range.                     *)
Overflows(x, y) ==
    \/ y > 0 /\ x > I32_MAX - y
    \/ y < 0 /\ x < I32_MIN - y

(* the two's-complement sum: x + y - 2^32 or x + y + 2^32 on overflow *)
WrappingAdd(x, y) ==
    IF y > 0 /\ x > I32_MAX - y THEN (x - I32_MAX - 1) + (y - I32_MAX - 1)
    ELSE IF y < 0 /\ x < I32_MIN - y
           THEN (x + I32_MAX + 1) + (y + I32_MAX + 1)
           ELSE x + y

(* `a + b` on i32: with overflow checks the addition panics on overflow     *)
(* ("attempt to add with overflow"), without them it wraps.                 *)
add_saturating(x, y) ==
    IF y > 0 /\ x > I32_MAX - y THEN [kind |-> "ok", val |-> I32_MAX]
    ELSE IF y < 0 /\ x < I32_MIN - y THEN [kind |-> "ok", val |-> I32_MIN]
    ELSE [kind |-> "ok", val |-> x + y]
add(x, y) ==
    IF Overflows(x, y) /\ overflow_checks
      THEN [kind |-> "panic", val |-> 0]
      ELSE [kind |-> "ok", val |-> WrappingAdd(x, y)]

AddInit ==
    /\ strong = 1
    /\ borrow = 0
    /\ value = InitialValue
    /\ destroyed = 0
    /\ handles = {1}
    /\ guards = <<>>
    /\ panicked = FALSE
    /\ lastRead = 0
    /\ last = [op |-> "create", h |-> 1, g |-> 0, new |-> 1, res |-> "ok",
               pre |-> NoSnapshot]
    /\ prev = [op |-> "none", h |-> 0, g |-> 0, new |-> 0, res |-> "ok",
               pre |-> NoSnapshot]
    /\ exclSeen = FALSE
    /\ pc = 0
    /\ a \in Samples
    /\ b \in Samples
    /\ overflow_checks \in BOOLEAN
    /\ outcome = [kind |-> "none", val |-> 0]

add_i32 ==
    /\ outcome.kind = "none"
    /\ outcome' = add(a, b)
    /\ UNCHANGED <<a, b, overflow_checks>>
    /\ UNCHANGED cellVars

AddNext == add_i32

AddSpec == AddInit /\ [][AddNext]_vars

----------------------------------------------------------------------------
(* Properties of the Rc<RefCell<i32>>, checked under Spec *)

LiveGuards(snap) == snap.shared + snap.excl

\* C1: in every reachable state at most one exclusive guard is live, no
\* shared guard is live together with an exclusive one, and the borrow flag
\* is exactly one of Unborrowed (0, no guard), SharedBorrowed(n) with n >= 1
\* (n shared guards) or ExclusiveBorrowed (-1, one exclusive guard).
C1_MutualExclusion ==
    /\ Cardinality(ExclGuards) <= 1
    /\ ExclGuards # {} => SharedGuards = {}
    /\ \/ borrow = 0 /\ DOMAIN guards = {}
       \/ borrow >= 1 /\ borrow = Cardinality(SharedGuards) /\ ExclGuards = {}
       \/ borrow = -1 /\ Cardinality(ExclGuards) = 1 /\ SharedGuards = {}

C1_Witness ==
    /\ Cardinality(ExclGuards) = 1
    /\ Cardinality(handles) >= 2
    /\ last.op = "borrow_exclusive"
    /\ prev.op = "release"
    /\ prev.pre.excl = 1

\* C2: borrow_exclusive succeeds if and only if no guard, shared or
\* exclusive, was live when it was called; otherwise it fails with a borrow
\* conflict.
C2_ExclusiveIff ==
    last.op = "borrow_exclusive" =>
        /\ (last.res = "ok") <=> (LiveGuards(last.pre) = 0)
        /\ last.res # "ok" => BorrowConflict(last.res)
        /\ last.res = "ok" => borrow = -1 /\ last.g \in ExclGuards

C2_Witness ==
    /\ last.op = "borrow_exclusive"
    /\ BorrowConflict(last.res)
    /\ last.pre.shared = 2
    /\ prev.op = "borrow_shared"

\* C3: as long as borrow_exclusive has not been called, every borrow_shared
\* succeeds and the shared count in the borrow flag equals the number of
\* shared guards created and not yet released (0, Unborrowed, when none).
C3_SharedCount ==
    ~exclSeen =>
        /\ borrow = Cardinality(SharedGuards)
        /\ last.op = "borrow_shared" =>
               last.res = "ok" /\ borrow = last.pre.borrow + 1

C3_Witness ==
    /\ ~exclSeen
    /\ last.op = "release"
    /\ last.pre.borrow = 2
    /\ borrow = 1
    /\ Cardinality(SharedGuards) = 1

\* C4 (as amended): a borrow that finds a conflict (borrow_mut while any
\* guard is live, borrow while an exclusive guard is live) panics at the
\* call, and at the panic the borrow flag, the stored value, the owner count
\* and the live guards are what they were before the call; borrow_mut with
\* one shared guard live leaves the flag at SharedBorrowed(1).
C4_ConflictPanics ==
    BorrowConflict(last.res) =>
        /\ panicked
        /\ \/ last.op = "borrow_exclusive" /\ LiveGuards(last.pre) > 0
           \/ last.op = "borrow_shared" /\ last.pre.excl = 1
        /\ Snapshot = last.pre
        /\ last.op = "borrow_exclusive" /\ last.pre.borrow = 1 => borrow = 1

C4_Witness ==
    /\ last.op = "borrow_exclusive"
    /\ last.res = "BorrowMutError"
    /\ prev.op = "borrow_shared"
    /\ prev.pre.borrow = 0
    /\ borrow = 1
    /\ value = InitialValue

\* C4 (as claimed): a borrow that finds a conflict hands an error back to
\* its caller, which keeps running, and leaves the borrow flag, the stored
\* value and the owner count unchanged.
C4_Original ==
    BorrowConflict(last.res) =>
        /\ ~panicked
        /\ Snapshot = last.pre

\* C5: the release of the last live guard (shared count 1 -> 0, or the
\* exclusive guard) leaves the cell Unborrowed and a borrow_exclusive issued
\* next succeeds; the release of a shared guard while others remain only
\* decrements the count.
C5_ReleaseLast ==
    /\ last.op = "release" /\ LiveGuards(last.pre) = 1 =>
           borrow = 0 /\ DOMAIN guards = {}
    /\ last.op = "release" /\ last.pre.shared > 1 =>
           borrow = last.pre.borrow - 1 /\ borrow >= 1
    /\ last.op = "borrow_exclusive" /\ prev.op = "release"
         /\ LiveGuards(prev.pre) = 1 =>
           last.res = "ok" /\ borrow = -1

C5_Witness ==
    /\ last.op = "borrow_exclusive"
    /\ last.res = "ok"
    /\ prev.op = "release"
    /\ prev.pre.shared = 1
    /\ prev.pre.excl = 0

\* C6: the owner count is never negative and equals the number of live
\* handles; the cell and its value are destroyed at most once, exactly at
\* the drop that takes the count from 1 to 0 and not before; once the count
\* is 0 no operation runs any more, so zero is reached once.
C6_DestroyedOnce ==
    /\ strong >= 0
    /\ strong = Cardinality(handles)
    /\ destroyed <= 1
    /\ (destroyed = 1) <=> (strong = 0)
    /\ last.op # "create" => last.pre.strong >= 1 /\ last.pre.destroyed = 0
    /\ destroyed = 1 =>
           last.op = "drop_handle" /\ last.pre.strong = 1
    /\ last.op = "drop_handle" =>
           /\ strong = last.pre.strong - 1
           /\ last.pre.strong > 1 => destroyed = 0

C6_Witness ==
    /\ strong = 0
    /\ destroyed = 1
    /\ DOMAIN guards = {}
    /\ last.op = "drop_handle"
    /\ last.h = 3
    /\ prev.op = "drop_handle"
    /\ prev.h = 2
    /\ prev.pre.strong = 2

\* C7: the cell is never destroyed while a guard on it is live: a destroyed
\* cell has no live guard, and every live guard was borrowed through a
\* handle that is still live, because a handle with a guard borrowed
\* through it cannot be dropped.
C7_NoDestroyWhileBorrowed ==
    /\ destroyed >= 1 => DOMAIN guards = {}
    /\ DOMAIN guards # {} => strong >= 1 /\ destroyed = 0
    /\ \A g \in DOMAIN guards : guards[g].via \in handles

C7_Witness ==
    /\ strong = 1
    /\ DOMAIN guards # {}
    /\ last.op = "drop_handle"
    /\ \A h \in handles : ~DropAllowed(h)

\* C8: clone_handle followed at once by drop_handle on the clone returns the
\* owner count to what it was (k >= 1) and leaves the borrow flag, the
\* stored value and the existence of the cell unchanged.
C8_CloneDropNeutral ==
    last.op = "drop_handle" /\ prev.op = "clone_handle" /\ last.h = prev.new =>
        /\ strong = prev.pre.strong
        /\ strong >= 1
        /\ borrow = prev.pre.borrow
        /\ value = prev.pre.value
        /\ destroyed = prev.pre.destroyed
        /\ destroyed = 0

C8_Witness ==
    /\ last.op = "drop_handle"
    /\ prev.op = "clone_handle"
    /\ last.h = prev.new
    /\ strong = 2
    /\ borrow = -1
    /\ value = InitialValue + 1

\* C9: the run of smart_pointer_examples (borrow_mut, add 1, drop of the
\* RefMut, borrow, read, drop of the Ref) meets no borrow conflict, reads 6,
\* and ends with stored value 6 and the cell Unborrowed.
C9_ExampleRun ==
    /\ pc >= 1 => ~panicked /\ last.res = "ok"
    /\ pc \in 1..2 => borrow = -1
    /\ pc >= 2 => value = 6
    /\ pc = 3 => borrow = 0
    /\ pc \in 4..5 => borrow = 1
    /\ pc >= 5 => lastRead = 6
    /\ pc >= 6 => borrow = 0 /\ DOMAIN guards = {}

C9_Witness ==
    /\ pc = 6
    /\ value = 6
    /\ lastRead = 6
    /\ borrow = 0
    /\ strong = 1

----------------------------------------------------------------------------
(* Properties of add, checked under AddSpec *)

(* r = x + y + k * 2^32 over the integers, for k in {-1, 0, 1}, evaluated   *)
(* on the halves of the numbers so that no intermediate value leaves 32     *)
(* bits: x + y = 2 * Half + parity.                                         *)
HalfSum(x, y) == (x \div 2) + (y \div 2) + (((x % 2) + (y % 2)) \div 2)

SumFits(x, y) == HalfSum(x, y) >= 0 - Pow30 /\ HalfSum(x, y) < Pow30

IsSum(r, x, y) ==
    /\ r % 2 = ((x % 2) + (y % 2)) % 2
    /\ r \div 2 = HalfSum(x, y)

IsSumModulo(r, x, y) ==
    /\ r % 2 = ((x % 2) + (y % 2)) % 2
    /\ r \div 2 = IF HalfSum(x, y) >= Pow30 THEN HalfSum(x, y) - Pow30 - Pow30
                  ELSE IF HalfSum(x, y) < 0 - Pow30
                         THEN HalfSum(x, y) + Pow30 + Pow30
                         ELSE HalfSum(x, y)

\* C10 (as amended): add(a, b) returns the integer sum a + b whenever that
\* sum lies in the i32 range (add(2, 3) = 5); when it does not, add panics
\* in a build with overflow checks and otherwise returns the sum reduced
\* modulo 2^32, which is not the sum.
C10_AddInRange ==
    outcome.kind # "none" =>
        /\ SumFits(a, b) => outcome.kind = "ok" /\ IsSum(outcome.val, a, b)
        /\ ~SumFits(a, b) /\ overflow_checks => outcome.kind = "panic"
        /\ ~SumFits(a, b) /\ ~overflow_checks =>
               /\ outcome.kind = "ok"
               /\ IsSumModulo(outcome.val, a, b)
               /\ ~IsSum(outcome.val, a, b)
        /\ a = 2 /\ b = 3 => outcome.val = 5

C10_Witness ==
    /\ a = I32_MAX
    /\ b = 1
    /\ outcome = [kind |-> "ok", val |-> I32_MIN]

\* C10 (as claimed): add(a, b) returns the integer sum a + b for every pair
\* of i32 arguments, also when the sum lies outside the i32 range.
C10_Original ==
    outcome.kind # "none" =>
        outcome.kind = "ok" /\ IsSum(outcome.val, a, b)

====
